---------------------------- MODULE Spec2Model ----------------------------
(***************************************************************************)
(* Stabilizer tableau engine of qibo (backends/clifford_operations.py).   *)
(*                                                                         *)
(* A tableau is a (2n+1) x (2n+1) binary matrix, modelled as a function   *)
(* row -> column -> bit with rows and columns numbered from 0 as in the   *)
(* source.  Rows 0..n-1 are destabilizers, rows n..2n-1 stabilizers, row  *)
(* 2n is the scratch row; columns 0..n-1 are X bits, n..2n-1 Z bits and   *)
(* column 2n the phase bit.                                                *)
(***************************************************************************)
EXTENDS Integers, Sequences, FiniteSets, TLC

\* ------------------------------------------------------------------ bounds
MaxQubits == 2      \* qubit counts 1..MaxQubits
MaxOps == 4         \* operations applied in one run of Spec
MaxList == 2        \* length of the qubit list handed to M
MaxRows == 2        \* nonzero rows of an arbitrary input tableau (SpecArb)
MaxCalls == 2       \* calls made in one run of SpecCall

Bit == {0, 1}

XOR(a, b) == (a + b) % 2

\* side length of a square tableau (tableau.shape[0])
Side(tableau) == Cardinality(DOMAIN tableau)

\* -------------------------------------------------------------- indexing
\* an integer index k on an axis of length len: numpy accepts -len..len-1 and
\* raises IndexError for any other k
InRange(k, len) == -len <= k /\ k < len

\* the position an accepted index addresses: a negative k counts from the end
Index(k, len) == IF k < 0 THEN k + len ELSE k

\* ------------------------------------------------------------- accessors
\* tableau[: -1 + (2n+2)*int(include_scratch), ...]: the row slice stops at
\* the last row (excluded) or at row 2n+1 (excluded).
RowStop(tableau, nqubits, include_scratch) ==
    IF include_scratch
    THEN (IF 2 * nqubits + 1 < Side(tableau) THEN 2 * nqubits + 1 ELSE Side(tableau))
    ELSE Side(tableau) - 1

get_r(tableau, nqubits, include_scratch) ==
    [i \in 0..(RowStop(tableau, nqubits, include_scratch) - 1) |->
        tableau[i][Side(tableau) - 1]]

set_r(tableau, val) ==
    [i \in DOMAIN tableau |->
        IF i < Side(tableau) - 1
        THEN [tableau[i] EXCEPT ![Side(tableau) - 1] = val[i]]
        ELSE tableau[i]]

get_x(tableau, nqubits, include_scratch) ==
    [i \in 0..(RowStop(tableau, nqubits, include_scratch) - 1) |->
        [j \in 0..(nqubits - 1) |-> tableau[i][j]]]

get_z(tableau, nqubits, include_scratch) ==
    [i \in 0..(RowStop(tableau, nqubits, include_scratch) - 1) |->
        [j \in 0..(Side(tableau) - 2 - nqubits) |-> tableau[i][nqubits + j]]]

get_scratch(tableau) == tableau[Side(tableau) - 1]

\* set_scratch that writes nothing
set_scratch_keep(tableau, val) == tableau

set_scratch(tableau, val) ==
    [tableau EXCEPT ![Side(tableau) - 1] = [c \in DOMAIN tableau[Side(tableau) - 1] |-> val]]

\* ---------------------------------------------------------------- setters
\* A value assigned to a slice is an array: its shape and its entries in
\* row-major order.  numpy broadcasts it to the shape of the slice and raises
\* ValueError when it cannot; leading axes of length 1 do not count.
RECURSIVE Squeezed(_)
Squeezed(shape) ==
    IF shape # <<>> /\ Head(shape) = 1 THEN Squeezed(Tail(shape)) ELSE shape

\* whether val can be assigned to one column of m rows (a slice of shape (m,))
FitsColumn(val, m) == Squeezed(val.shape) \in {<<>>, <<m>>}

\* the entry of val that lands in row i of the column
ColumnEntry(val, i) ==
    IF Squeezed(val.shape) = <<>> THEN val.data[1] ELSE val.data[i + 1]

\* whether val can be assigned to a block of m rows and c columns
FitsBlock(val, m, c) == Squeezed(val.shape) \in {<<>>, <<c>>, <<m, c>>, <<m, 1>>}

\* the entry of val that lands in row i, column j of the block
BlockEntry(val, i, j, m, c) ==
    CASE Squeezed(val.shape) = <<>> -> val.data[1]
      [] Squeezed(val.shape) = <<c>> -> val.data[j + 1]
      [] Squeezed(val.shape) = <<m, c>> -> val.data[i * c + j + 1]
      [] Squeezed(val.shape) = <<m, 1>> -> val.data[i + 1]

\* tableau[:-1, nqubits] = val: the one column of index nqubits, which is
\* the first Z column
set_x(tableau, nqubits, val) ==
    IF ~FitsColumn(val, Side(tableau) - 1) THEN [error |-> "ValueError"]
    ELSE [tableau |->
             [i \in DOMAIN tableau |->
                 IF i < Side(tableau) - 1
                 THEN [tableau[i] EXCEPT ![nqubits] = ColumnEntry(val, i)]
                 ELSE tableau[i]]]

\* tableau[:-1, nqubits:-1] = val
set_z(tableau, nqubits, val) ==
    IF ~FitsBlock(val, Side(tableau) - 1, Side(tableau) - 1 - nqubits)
    THEN [error |-> "ValueError"]
    ELSE [tableau |->
             [i \in DOMAIN tableau |->
                 IF i < Side(tableau) - 1
                 THEN [c \in DOMAIN tableau[i] |->
                          IF nqubits <= c /\ c < Side(tableau) - 1
                          THEN BlockEntry(val, i, c - nqubits, Side(tableau) - 1,
                                          Side(tableau) - 1 - nqubits)
                          ELSE tableau[i][c]]
                 ELSE tableau[i]]]

\* set_r(tableau, val) with val an array: tableau[:-1, -1] = val
set_r_array(tableau, val) ==
    IF ~FitsColumn(val, Side(tableau) - 1) THEN [error |-> "ValueError"]
    ELSE [tableau |->
             set_r(tableau, [i \in 0..(Side(tableau) - 2) |-> ColumnEntry(val, i)])]

\* ------------------------------------------------------------------ gates
\* a call that binds new_tab to the array it was handed and writes to that
in_place(tableau, written) ==
    [tableau |-> written, new_tab |-> written, aliased |-> TRUE]

\* new_tab = tableau.copy() followed by the writes of the call, all of them
\* through new_tab; written is the array new_tab holds when the call returns
\*   tableau  the array the caller passed in, as the call leaves it
\*   new_tab  the array the call returns
\*   aliased  whether the two are one object
copy(tableau, written) ==
    [tableau |-> tableau, new_tab |-> written, aliased |-> FALSE]

\* H with the phase update r ^= x_q in place of r ^= x_q * z_q
H_phase_x(tableau, q, nqubits) ==
    LET x == get_x(tableau, nqubits, FALSE)
        r == get_r(tableau, nqubits, FALSE)
        new_tab == set_r(tableau, [i \in DOMAIN r |-> XOR(r[i], x[i][q])])
    IN  [i \in DOMAIN new_tab |->
            [new_tab[i] EXCEPT ![q] = new_tab[i][nqubits + q],
                               ![nqubits + q] = new_tab[i][q]]]

H(tableau, q, nqubits) ==
    LET x == get_x(tableau, nqubits, FALSE)
        z == get_z(tableau, nqubits, FALSE)
        r == get_r(tableau, nqubits, FALSE)
        k == Index(q, nqubits)
        new_tab == set_r(tableau, [i \in DOMAIN r |-> XOR(r[i], x[i][k] * z[i][k])])
        a == Index(q, Side(tableau))
        b == Index(nqubits + q, Side(tableau))
    IN  \* new_tab[:, [q, n+q]] = new_tab[:, [n+q, q]]: every row, scratch included
        [i \in DOMAIN new_tab |->
            [new_tab[i] EXCEPT ![a] = new_tab[i][b], ![b] = new_tab[i][a]]]

\* CNOT that leaves the Z column of the control as it was
CNOT_keep_z(tableau, control_q, target_q, nqubits) ==
    LET x == get_x(tableau, nqubits, FALSE)
        z == get_z(tableau, nqubits, FALSE)
        r == get_r(tableau, nqubits, FALSE)
        new_tab == set_r(tableau,
            [i \in DOMAIN r |->
                XOR(r[i], (x[i][control_q] * z[i][target_q])
                          * XOR(XOR(x[i][target_q], z[i][control_q]), 1))])
    IN  [i \in DOMAIN new_tab |->
            IF i < Side(tableau) - 1
            THEN [new_tab[i] EXCEPT ![target_q] =
                      XOR(x[i][target_q], x[i][control_q])]
            ELSE new_tab[i]]

\* CNOT whose phase update leaves out the factor z_t
CNOT_phase_no_zt(tableau, control_q, target_q, nqubits) ==
    LET x == get_x(tableau, nqubits, FALSE)
        z == get_z(tableau, nqubits, FALSE)
        r == get_r(tableau, nqubits, FALSE)
        new_tab == set_r(tableau,
            [i \in DOMAIN r |->
                XOR(r[i], x[i][control_q]
                          * XOR(XOR(x[i][target_q], z[i][control_q]), 1))])
    IN  [i \in DOMAIN new_tab |->
            IF i < Side(tableau) - 1
            THEN [new_tab[i] EXCEPT
                      ![target_q] = XOR(x[i][target_q], x[i][control_q]),
                      ![nqubits + control_q] = XOR(z[i][control_q], z[i][target_q])]
            ELSE new_tab[i]]

\* CNOT that updates the Z column of the target (z_t ^= z_c) where the source
\* updates the Z column of the control
CNOT_z_on_target(tableau, control_q, target_q, nqubits) ==
    LET x == get_x(tableau, nqubits, FALSE)
        z == get_z(tableau, nqubits, FALSE)
        r == get_r(tableau, nqubits, FALSE)
        new_tab == set_r(tableau,
            [i \in DOMAIN r |->
                XOR(r[i], (x[i][control_q] * z[i][target_q])
                          * XOR(XOR(x[i][target_q], z[i][control_q]), 1))])
    IN  [i \in DOMAIN new_tab |->
            IF i < Side(tableau) - 1
            THEN [new_tab[i] EXCEPT
                      ![target_q] = XOR(x[i][target_q], x[i][control_q]),
                      ![nqubits + target_q] = XOR(z[i][control_q], z[i][target_q])]
            ELSE new_tab[i]]

CNOT(tableau, control_q, target_q, nqubits) ==
    LET x == get_x(tableau, nqubits, FALSE)
        z == get_z(tableau, nqubits, FALSE)
        r == get_r(tableau, nqubits, FALSE)
        c == Index(control_q, nqubits)
        t == Index(target_q, nqubits)
        new_tab == set_r(tableau,
            [i \in DOMAIN r |->
                XOR(r[i], (x[i][c] * z[i][t]) * XOR(XOR(x[i][t], z[i][c]), 1))])
        \* new_tab[:-1, target_q] = x[:, target_q] ^ x[:, control_q]
        tab2 == [i \in DOMAIN new_tab |->
                    IF i < Side(tableau) - 1
                    THEN [new_tab[i] EXCEPT ![Index(target_q, Side(tableau))] =
                              XOR(x[i][t], x[i][c])]
                    ELSE new_tab[i]]
        \* z is a view of new_tab: it shows the write of the line above when
        \* that write fell into a Z column (a negative target_q)
        z2 == get_z(tab2, nqubits, FALSE)
    IN  \* new_tab[:-1, n + control_q] = z[:, control_q] ^ z[:, target_q]
        [i \in DOMAIN tab2 |->
            IF i < Side(tableau) - 1
            THEN [tab2[i] EXCEPT ![Index(nqubits + control_q, Side(tableau))] =
                      XOR(z2[i][c], z2[i][t])]
            ELSE tab2[i]]

\* S with z_q |= x_q in place of z_q ^= x_q
S_or(tableau, q, nqubits) ==
    LET x == get_x(tableau, nqubits, FALSE)
        z == get_z(tableau, nqubits, FALSE)
        r == get_r(tableau, nqubits, FALSE)
        new_tab == set_r(tableau, [i \in DOMAIN r |-> XOR(r[i], x[i][q] * z[i][q])])
    IN  [i \in DOMAIN new_tab |->
            IF i < Side(tableau) - 1
            THEN [new_tab[i] EXCEPT ![nqubits + q] =
                      IF z[i][q] = 1 \/ x[i][q] = 1 THEN 1 ELSE 0]
            ELSE new_tab[i]]

\* S without the update of the phase column
S_no_phase(tableau, q, nqubits) ==
    LET x == get_x(tableau, nqubits, FALSE)
        z == get_z(tableau, nqubits, FALSE)
    IN  [i \in DOMAIN tableau |->
            IF i < Side(tableau) - 1
            THEN [tableau[i] EXCEPT ![nqubits + q] = XOR(z[i][q], x[i][q])]
            ELSE tableau[i]]

S(tableau, q, nqubits) ==
    LET x == get_x(tableau, nqubits, FALSE)
        z == get_z(tableau, nqubits, FALSE)
        r == get_r(tableau, nqubits, FALSE)
        k == Index(q, nqubits)
        new_tab == set_r(tableau, [i \in DOMAIN r |-> XOR(r[i], x[i][k] * z[i][k])])
    IN  [i \in DOMAIN new_tab |->
            IF i < Side(tableau) - 1
            THEN [new_tab[i] EXCEPT ![Index(nqubits + q, Side(tableau))] =
                      XOR(z[i][k], x[i][k])]
            ELSE new_tab[i]]

\* ----------------------------------------------------------------- rowsum
\* the exponent table without its signs
exponent_abs(x1, z1, x2, z2) ==
    IF x1 = z1
    THEN (IF x1 = 0 THEN 0 ELSE (IF z2 = x2 THEN 0 ELSE 1))
    ELSE (IF x1 = 1 THEN z2 ELSE x2)

exponent(x1, z1, x2, z2) ==
    IF x1 = z1
    THEN (IF x1 = 0 THEN 0 ELSE z2 - x2)
    ELSE (IF x1 = 1 THEN z2 * (2 * x2 - 1) ELSE x2 * (1 - 2 * z2))

RECURSIVE SumTo(_, _)
SumTo(f, k) == IF k < 0 THEN 0 ELSE f[k] + SumTo(f, k - 1)

\* the accumulated value with the phase bit of row h counted once
rowsum_acc_one_phase(tableau, h, i, nqubits, include_scratch) ==
    LET x == get_x(tableau, nqubits, include_scratch)
        z == get_z(tableau, nqubits, include_scratch)
        exponents == [j \in 0..(nqubits - 1) |->
                         exponent(x[i][j], z[i][j], x[h][j], z[h][j])]
        last == Side(tableau) - 1
    IN  tableau[h][last] + 2 * tableau[i][last] + SumTo(exponents, nqubits - 1)

\* 2*r_h + 2*r_i + sum_j g_j, the value rowsum reduces modulo 4.  The source
\* adds machine integers; an unsigned 8-bit wrap of a negative g changes the
\* sum by a multiple of 256 and so leaves the residue modulo 4 as it is here.
rowsum_acc(tableau, h, i, nqubits, include_scratch) ==
    LET x == get_x(tableau, nqubits, include_scratch)
        z == get_z(tableau, nqubits, include_scratch)
        exponents == [j \in 0..(nqubits - 1) |->
                         exponent(x[i][j], z[i][j], x[h][j], z[h][j])]
        last == Side(tableau) - 1
    IN  2 * tableau[h][last] + 2 * tableau[i][last] + SumTo(exponents, nqubits - 1)

rowsum(tableau, h, i, nqubits, include_scratch) ==
    LET x == get_x(tableau, nqubits, include_scratch)
        z == get_z(tableau, nqubits, include_scratch)
        last == Side(tableau) - 1
        rh == IF rowsum_acc(tableau, h, i, nqubits, include_scratch) % 4 = 0
              THEN 0 ELSE 1
    IN  [tableau EXCEPT ![h] =
            [c \in DOMAIN tableau[h] |->
                IF c = last THEN rh
                ELSE IF c < nqubits THEN XOR(x[i][c], x[h][c])
                ELSE XOR(z[i][c - nqubits], z[h][c - nqubits])]]


\* ------------------------------------------------------------ measurement
Min(rows) == CHOOSE m \in rows : \A k \in rows : m <= k

\* the loop of the random branch summing row p into itself with each row
\* (rowsum(state_copy, p, i) for rowsum(state_copy, i, p))
RECURSIVE rowsum_each_into_p(_, _, _, _)
rowsum_each_into_p(state_copy, rows, p, nqubits) ==
    IF rows = {} THEN state_copy
    ELSE rowsum_each_into_p(rowsum(state_copy, p, Min(rows), nqubits, FALSE),
                            rows \ {Min(rows)}, p, nqubits)

\* random branch: for i in x[:, q].nonzero()[0]: if i != p:
\*     state_copy = self.rowsum(state_copy, i, p, nqubits)
RECURSIVE rowsum_each(_, _, _, _)
rowsum_each(state_copy, rows, p, nqubits) ==
    IF rows = {} THEN state_copy
    ELSE rowsum_each(rowsum(state_copy, Min(rows), p, nqubits, FALSE),
                     rows \ {Min(rows)}, p, nqubits)

\* the deterministic branch summing row i where the source sums row i + n
RECURSIVE scratch_each_destab(_, _, _)
scratch_each_destab(state_copy, rows, nqubits) ==
    IF rows = {} THEN state_copy
    ELSE scratch_each_destab(rowsum(state_copy, 2 * nqubits, Min(rows), nqubits, TRUE),
                             rows \ {Min(rows)}, nqubits)

\* deterministic branch: for i in (x[:, q] == 1).nonzero()[0]:
\*     state_copy = self.rowsum(state_copy, 2n, i + n, nqubits, include_scratch=True)
RECURSIVE scratch_each(_, _, _)
scratch_each(state_copy, rows, nqubits) ==
    IF rows = {} THEN state_copy
    ELSE scratch_each(rowsum(state_copy, 2 * nqubits, Min(rows) + nqubits, nqubits, TRUE),
                      rows \ {Min(rows)}, nqubits)

\* the pivot search run over every generator row (x[:, q] for x[nqubits:, q])
pivots_all_rows(x, q, nqubits) ==
    {i \in 0..(2 * nqubits - 1) : x[i][Index(q, nqubits)] # 0}

\* p = x[nqubits:, q].nonzero()[0] + nqubits: the stabilizer rows, by their
\* index in the tableau, whose X bit at q is set
pivots(x, q, nqubits) ==
    {i \in nqubits..(2 * nqubits - 1) : x[i][Index(q, nqubits)] # 0}

\* the random branch without the copy of row p into row p - n
collapse_row_no_move(state_copy, p, q, nqubits, outcome) ==
    [state_copy EXCEPT ![p] =
        [c \in DOMAIN state_copy[p] |->
            IF c = Index(nqubits + q, Side(state_copy)) THEN 1
            ELSE IF c = Side(state_copy) - 1 THEN outcome ELSE 0]]

\* the in-place writes that end the random branch:
\*   state_copy[p - nqubits, :] = state_copy[p, :]
\*   state_copy[p, :] = 0; state_copy[p, -1] = outcome; state_copy[p, n + q] = 1
collapse_row(state_copy, p, q, nqubits, outcome) ==
    LET moved == [state_copy EXCEPT ![p - nqubits] = state_copy[p]]
    IN  [moved EXCEPT ![p] =
            [c \in DOMAIN moved[p] |->
                IF c = Index(nqubits + q, Side(state_copy)) THEN 1
                ELSE IF c = Side(state_copy) - 1 THEN outcome ELSE 0]]

\* One pass of the loop "for q in qubits" of M.  w is the frame of the call:
\*   state      the array object the caller passed in
\*   state_copy the array the local name state_copy is bound to
\*   aliased    whether both are the same object (rowsum returns a fresh copy,
\*              so the first rowsum call of the loop rebinds state_copy)
\*   sample     the outcomes collected so far
\*   rnd        the bits np.random.randint will return next
\*   drawn      the bits drawn so far
\*   kinds      the branch taken for each qubit so far
\*   starved    the stream rnd was too short for the call (no such run)
\*   error      x[nqubits:, q] raised IndexError: the call ends there
M_step(w, q, nqubits) ==
    LET x == get_x(w.state_copy, nqubits, FALSE)
        P == pivots(x, q, nqubits)
        k == Index(q, nqubits)
    IN  IF ~InRange(q, nqubits) THEN [w EXCEPT !.error = TRUE]
        ELSE IF P # {}
        THEN LET p == Min(P)
                 rows == {i \in DOMAIN x : x[i][k] # 0 /\ i # p}
                 summed == rowsum_each(w.state_copy, rows, p, nqubits)
                 outcome == IF w.rnd = <<>> THEN 0 ELSE Head(w.rnd)
                 collapsed == collapse_row(summed, p, q, nqubits, outcome)
                 aliased == w.aliased /\ rows = {}
             IN  [state |-> IF aliased THEN collapsed ELSE w.state,
                  state_copy |-> collapsed,
                  aliased |-> aliased,
                  sample |-> Append(w.sample, outcome),
                  rnd |-> IF w.rnd = <<>> THEN <<>> ELSE Tail(w.rnd),
                  drawn |-> Append(w.drawn, outcome),
                  kinds |-> Append(w.kinds, "random"),
                  starved |-> w.starved \/ w.rnd = <<>>,
                  error |-> FALSE]
        ELSE LET zeroed == set_scratch(w.state_copy, 0)
                 rows == {i \in DOMAIN x : x[i][k] = 1}
                 summed == scratch_each(zeroed, rows, nqubits)
             IN  [state |-> IF w.aliased THEN zeroed ELSE w.state,
                  state_copy |-> summed,
                  aliased |-> w.aliased /\ rows = {},
                  sample |-> Append(w.sample, get_scratch(summed)[Side(summed) - 1]),
                  rnd |-> w.rnd,
                  drawn |-> w.drawn,
                  kinds |-> Append(w.kinds, "determined"),
                  starved |-> w.starved,
                  error |-> FALSE]

RECURSIVE M_loop(_, _, _)
M_loop(w, qubits, nqubits) ==
    IF qubits = <<>> \/ w.error THEN w
    ELSE M_loop(M_step(w, Head(qubits), nqubits), Tail(qubits), nqubits)

\* M working on the caller's array whatever the value of collapse
M_no_copy(state, qubits, nqubits, collapse, rnd) ==
    M_loop([state |-> state, state_copy |-> state, aliased |-> TRUE,
            sample |-> <<>>, rnd |-> rnd, drawn |-> <<>>, kinds |-> <<>>,
            starved |-> FALSE, error |-> FALSE],
           qubits, nqubits)

\* M drawing a random bit on entry, before the loop over the qubits
M_draws_ahead(state, qubits, nqubits, collapse, rnd) ==
    M_loop([state |-> state, state_copy |-> state, aliased |-> collapse,
            sample |-> <<>>,
            rnd |-> IF rnd = <<>> THEN <<>> ELSE Tail(rnd),
            drawn |-> IF rnd = <<>> THEN <<>> ELSE <<Head(rnd)>>,
            kinds |-> <<>>, starved |-> rnd = <<>>, error |-> FALSE],
           qubits, nqubits)

\* M running through the qubit list from its last entry to its first
M_reversed(state, qubits, nqubits, collapse, rnd) ==
    M_loop([state |-> state, state_copy |-> state, aliased |-> collapse,
            sample |-> <<>>, rnd |-> rnd, drawn |-> <<>>, kinds |-> <<>>,
            starved |-> FALSE, error |-> FALSE],
           [k \in 1..Len(qubits) |-> qubits[Len(qubits) + 1 - k]], nqubits)

\* M(state, qubits, nqubits, collapse) with rnd the stream of random bits; the
\* value the source returns is the field sample of the frame.
M(state, qubits, nqubits, collapse, rnd) ==
    M_loop([state |-> state, state_copy |-> state, aliased |-> collapse,
            sample |-> <<>>, rnd |-> rnd, drawn |-> <<>>, kinds |-> <<>>,
            starved |-> FALSE, error |-> FALSE],
           qubits, nqubits)

\* the rowsum calls of the loop of the random branch, in call order: the rows
\* h and i of each call and the value it accumulates (line 149)
RECURSIVE rowsum_each_calls(_, _, _, _)
rowsum_each_calls(state_copy, rows, p, nqubits) ==
    IF rows = {} THEN <<>>
    ELSE <<[kind |-> "random", h |-> Min(rows), i |-> p,
            acc |-> rowsum_acc(state_copy, Min(rows), p, nqubits, FALSE)]>>
         \o rowsum_each_calls(rowsum(state_copy, Min(rows), p, nqubits, FALSE),
                              rows \ {Min(rows)}, p, nqubits)

\* the rowsum calls of the loop of the deterministic branch, in call order
RECURSIVE scratch_each_calls(_, _, _)
scratch_each_calls(state_copy, rows, nqubits) ==
    IF rows = {} THEN <<>>
    ELSE <<[kind |-> "determined", h |-> 2 * nqubits, i |-> Min(rows) + nqubits,
            acc |-> rowsum_acc(state_copy, 2 * nqubits, Min(rows) + nqubits,
                               nqubits, TRUE)]>>
         \o scratch_each_calls(
                rowsum(state_copy, 2 * nqubits, Min(rows) + nqubits, nqubits, TRUE),
                rows \ {Min(rows)}, nqubits)

\* the rowsum calls of one pass of the loop of M on the working array
M_step_calls(state_copy, q, nqubits) ==
    LET x == get_x(state_copy, nqubits, FALSE)
        P == pivots(x, q, nqubits)
        k == Index(q, nqubits)
    IN  IF ~InRange(q, nqubits) THEN <<>>
        ELSE IF P # {}
        THEN rowsum_each_calls(state_copy,
                               {i \in DOMAIN x : x[i][k] # 0 /\ i # Min(P)},
                               Min(P), nqubits)
        ELSE scratch_each_calls(set_scratch(state_copy, 0),
                                {i \in DOMAIN x : x[i][k] = 1}, nqubits)

\* the rowsum calls of a call of M, in call order
RECURSIVE M_calls(_, _, _)
M_calls(w, qubits, nqubits) ==
    IF qubits = <<>> \/ w.error THEN <<>>
    ELSE M_step_calls(w.state_copy, Head(qubits), nqubits)
         \o M_calls(M_step(w, Head(qubits), nqubits), Tail(qubits), nqubits)

\* ---------------------------------------------------------------- decoder
\* int((shape - 1) / 2): a true division, then truncation toward zero
nqubits_of_shape(shape) ==
    IF shape >= 1 THEN (shape - 1) \div 2 ELSE -((1 - shape) \div 2)

\* complex numbers with integer parts, <<re, im>>, and their product
Complex(re, im) == <<re, im>>

cmul(a, b) == Complex(a[1] * b[1] - a[2] * b[2], a[1] * b[2] + a[2] * b[1])

\* the sign (-1) ** r
sign_power(r) == IF r % 2 = 0 THEN Complex(1, 0) ELSE Complex(-1, 0)

\* 1j ** r
imag_power(r) ==
    CASE r % 4 = 0 -> Complex(1, 0)
      [] r % 4 = 1 -> Complex(0, 1)
      [] r % 4 = 2 -> Complex(-1, 0)
      [] r % 4 = 3 -> Complex(0, -1)

\* the key written x first
key_xz(xx, zz) == <<xx, zz>>

\* f"{zz}{xx}": the key of a bit pair, z bit first
key(xx, zz) == <<zz, xx>>

\* bits_to_gate = {"00": gates.I, "01": gates.X, "10": gates.Z, "11": gates.Y}
bits_to_gate(k) ==
    CASE k = <<0, 0>> -> "I"
      [] k = <<0, 1>> -> "X"
      [] k = <<1, 0>> -> "Z"
      [] k = <<1, 1>> -> "Y"

\* an array is its shape and its entries in row-major order.
\* gates.I(q).matrix(), gates.X(q).matrix(), ...: the Pauli matrices
matrix(gate) ==
    [shape |-> <<2, 2>>,
     data |->
        CASE gate = "I" -> <<Complex(1, 0), Complex(0, 0), Complex(0, 0), Complex(1, 0)>>
          [] gate = "X" -> <<Complex(0, 0), Complex(1, 0), Complex(1, 0), Complex(0, 0)>>
          [] gate = "Z" -> <<Complex(1, 0), Complex(0, 0), Complex(0, 0), Complex(-1, 0)>>
          [] gate = "Y" -> <<Complex(0, 0), Complex(0, -1), Complex(0, 1), Complex(0, 0)>>]

\* np.tensordot(a, b, axes=0): the outer product, of shape a.shape + b.shape
tensordot(a, b) ==
    [shape |-> a.shape \o b.shape,
     data |-> [k \in 1..(Len(a.data) * Len(b.data)) |->
                  cmul(a.data[((k - 1) \div Len(b.data)) + 1],
                       b.data[((k - 1) % Len(b.data)) + 1])]]

\* a.reshape(rows, cols): the same entries in the same order under a new shape
reshape(a, rows, cols) == [shape |-> <<rows, cols>>, data |-> a.data]

\* for p in paulis[1:]: matrix = np.tensordot(matrix, p.matrix(), axes=0)
RECURSIVE tensordot_each(_, _)
tensordot_each(m, paulis) ==
    IF paulis = <<>> THEN m
    ELSE tensordot_each(tensordot(m, matrix(Head(paulis).gate)), Tail(paulis))

RECURSIVE Pow2(_)
Pow2(k) == IF k <= 0 THEN 1 ELSE 2 * Pow2(k - 1)

\* one pass of "for x, z in zip(X, Z)", on row i of the tableau: X holds the
\* columns :nqubits and Z the columns nqubits: of tableau[nqubits:-1, :-1], and
\* zip stops at the shorter of the two
generator(tableau, i, nqubits, return_array) ==
    LET xlen == IF nqubits < Side(tableau) - 1 THEN nqubits ELSE Side(tableau) - 1
        zlen == Side(tableau) - 1 - nqubits
        len == IF xlen < zlen THEN xlen ELSE zlen
        paulis == [j \in 1..len |->
                      [gate |-> bits_to_gate(key(tableau[i][j - 1],
                                                 tableau[i][nqubits + j - 1])),
                       qubit |-> j - 1]]
    IN  IF return_array
        THEN reshape(tensordot_each(matrix(paulis[1].gate), Tail(paulis)),
                     Pow2(nqubits), Pow2(nqubits))
        ELSE paulis

\* tableau_to_generators(tableau, return_array): the rows nqubits..side-2 are
\* decoded; paulis[0] raises IndexError when a decoded row has no column pair
tableau_to_generators(tableau, return_array) ==
    LET nqubits == nqubits_of_shape(Side(tableau))
        count == Side(tableau) - 1 - nqubits
    IN  IF return_array /\ count > 0 /\ nqubits = 0
        THEN [error |-> "IndexError"]
        ELSE [generators |->
                  [k \in 1..count |->
                      generator(tableau, nqubits + k - 1, nqubits, return_array)],
              phases |->
                  [k \in 1..count |->
                      imag_power(tableau[nqubits + k - 1][Side(tableau) - 1])]]

\* ------------------------------------------------------------ input states
\* zero_state(n): destabilizer row i = X_i, stabilizer row n+i = Z_i, phases 0
ZeroState(nqubits) ==
    [i \in 0..(2 * nqubits) |->
        [c \in 0..(2 * nqubits) |-> IF i = c /\ i < 2 * nqubits THEN 1 ELSE 0]]

ZeroRow(nqubits) == [c \in 0..(2 * nqubits) |-> 0]

\* every binary tableau of n qubits with at most MaxRows nonzero rows
ArbTableaux(nqubits) ==
    UNION {
        {[i \in 0..(2 * nqubits) |-> IF i \in R THEN f[i] ELSE ZeroRow(nqubits)] :
            f \in [R -> [0..(2 * nqubits) -> Bit] \ {ZeroRow(nqubits)}]} :
        R \in {Q \in SUBSET (0..(2 * nqubits)) : Cardinality(Q) <= MaxRows}}

\* every binary square array of the given side, a side no tableau has, with
\* at most MaxRows nonzero rows
MalformedTableaux(side) ==
    UNION {
        {[i \in 0..(side - 1) |->
             IF i \in R THEN f[i] ELSE [c \in 0..(side - 1) |-> 0]] :
            f \in [R -> [0..(side - 1) -> Bit] \ {[c \in 0..(side - 1) |-> 0]}]} :
        R \in {Q \in SUBSET (0..(side - 1)) : Cardinality(Q) <= MaxRows}}

QubitLists(nqubits) ==
    UNION {[1..k -> 0..(nqubits - 1)] : k \in 1..MaxList}

\* ------------------------------------------------------------------ state
VARIABLES
    n,          \* qubit count of the run
    tab,        \* the tableau the caller holds
    prev,       \* the caller's tableau before the last operation
    base,       \* the caller's tableau before the first operation of hist
    work,       \* the array the last operation worked on (new_tab, state_copy)
    ret,        \* the value the last operation returned
    hist,       \* the latest operations, oldest first: the run of identical
                \* calls (same operation, same arguments) that ends now
    steps,      \* operations applied so far
    nmeas,      \* measurement calls among them
    arg         \* the array handed to the last operation as the operation
                \* left it, and whether the returned array is that object

vars == <<n, tab, prev, base, work, ret, hist, steps, nmeas, arg>>

\* the record of a call: the operation, its arguments (the qubit indices, the
\* rows of rowsum, the value of a setter) and its flag (collapse of M,
\* return_array of the decoder), and for M the random bits drawn, the branch
\* taken per qubit and the sample
Op(name, qs, collapse, w) ==
    [op |-> name, q |-> qs, collapse |-> collapse,
     bits |-> w.drawn, kinds |-> w.kinds, out |-> w.sample]

NoDraw == [drawn |-> <<>>, kinds |-> <<>>, sample |-> <<>>]

Last(seq) == seq[Len(seq)]

\* whether the call repeats the one before it
SameCall(name, qs, collapse) ==
    IF hist = <<>> THEN FALSE
    ELSE Last(hist).op = name /\ Last(hist).q = qs /\ Last(hist).collapse = collapse

Init ==
    /\ n \in 1..MaxQubits
    /\ tab = ZeroState(n)
    /\ prev = tab
    /\ base = tab
    /\ work = tab
    /\ ret = [none |-> TRUE]
    /\ hist = <<>>
    /\ steps = 0
    /\ nmeas = 0
    /\ arg = [tableau |-> tab, aliased |-> FALSE]

InitArb ==
    /\ n \in 1..MaxQubits
    /\ tab \in ArbTableaux(n)
    /\ prev = tab
    /\ base = tab
    /\ work = tab
    /\ ret = [none |-> TRUE]
    /\ hist = <<>>
    /\ steps = 0
    /\ nmeas = 0
    /\ arg = [tableau |-> tab, aliased |-> FALSE]

Record(name, qs, collapse, w) ==
    /\ steps < MaxOps
    /\ steps' = steps + 1
    /\ nmeas' = IF name = "M" THEN nmeas + 1 ELSE nmeas
    /\ prev' = tab
    /\ hist' = IF SameCall(name, qs, collapse)
               THEN Append(hist, Op(name, qs, collapse, w))
               ELSE <<Op(name, qs, collapse, w)>>
    /\ base' = IF SameCall(name, qs, collapse) THEN base ELSE tab
    /\ UNCHANGED n

\* whether a column index among qs is one numpy rejects on the n columns of
\* get_x / get_z
Raises(qs) == \E k \in DOMAIN qs : ~InRange(qs[k], n)

\* a gate call.  The first statement after the copy reads get_x(...)[:, q]:
\* an index numpy rejects ends the call there with IndexError and the caller
\* keeps its tableau; otherwise the caller replaces its tableau by the
\* returned one.
Gate(name, qs, raises, written) ==
    /\ Record(name, qs, FALSE, NoDraw)
    /\ IF raises
       THEN /\ tab' = tab
            /\ work' = tab
            /\ ret' = [error |-> "IndexError"]
            /\ arg' = [tableau |-> tab, aliased |-> FALSE]
       ELSE \E f \in {copy(tab, written)} :
            /\ tab' = f.new_tab
            /\ work' = f.new_tab
            /\ ret' = [tableau |-> f.new_tab]
            /\ arg' = [tableau |-> f.tableau, aliased |-> f.aliased]

DoH(q) == Gate("H", <<q>>, Raises(<<q>>), H(tab, q, n))

DoS(q) == Gate("S", <<q>>, Raises(<<q>>), S(tab, q, n))

DoCNOT(c, t) == Gate("CNOT", <<c, t>>, Raises(<<c, t>>), CNOT(tab, c, t, n))

\* the Pauli X gate on q as the caller decomposes it: the calls H(q), S(q),
\* S(q), H(q), each on the tableau the call before it returned
DoX(q) ==
    Gate("X", <<q>>, Raises(<<q>>), H(S(S(H(tab, q, n), q, n), q, n), q, n))

\* a call of a setter on the caller's tableau: the setter writes to the array
\* it is handed and returns nothing; a ValueError leaves the array as it was
Setter(name, val, f) ==
    /\ Record(name, val, FALSE, NoDraw)
    /\ tab' = IF "error" \in DOMAIN f THEN tab ELSE f.tableau
    /\ work' = tab'
    /\ ret' = IF "error" \in DOMAIN f THEN f ELSE [none |-> TRUE]
    /\ arg' = [tableau |-> tab', aliased |-> FALSE]

DoSetX(val) == \E f \in {set_x(tab, n, val)} : Setter("set_x", val, f)

DoSetZ(val) == \E f \in {set_z(tab, n, val)} : Setter("set_z", val, f)

DoSetR(val) == \E f \in {set_r_array(tab, val)} : Setter("set_r", val, f)

\* a direct call of rowsum on rows h and i; the scratch row is addressed with
\* include_scratch=True
DoRowsum(h, i) ==
    Gate("rowsum", <<h, i>>, FALSE, rowsum(tab, h, i, n, h = 2 * n))

\* a measurement call that hands back the working tableau with the sample
DoM_returns_pair(qubits, collapse, rnd) ==
    /\ steps < MaxOps
    /\ \E w \in {M(tab, qubits, n, collapse, rnd)} :
        /\ ~w.starved
        /\ w.rnd = [k \in 1..Len(w.rnd) |-> 0]
        /\ Record("M", qubits, collapse, w)
        /\ tab' = w.state
        /\ work' = w.state_copy
        /\ ret' = [tableau |-> w.state_copy, sample |-> w.sample]
        /\ arg' = [tableau |-> w.state, aliased |-> FALSE]

\* a measurement call: the caller keeps the object it passed in, which M may
\* have written to, and receives the sample
DoM(qubits, collapse, rnd) ==
    /\ steps < MaxOps
    /\ \E w \in {M(tab, qubits, n, collapse, rnd)} :
        /\ ~w.starved
        /\ w.rnd = [k \in 1..Len(w.rnd) |-> 0]
        /\ Record("M", qubits, collapse, w)
        /\ tab' = w.state
        /\ work' = w.state_copy
        /\ ret' = IF w.error THEN [error |-> "IndexError"] ELSE [sample |-> w.sample]
        /\ arg' = [tableau |-> w.state, aliased |-> FALSE]

\* a call of the decoder on the tableau the caller holds
DoDecode(return_array) ==
    /\ Record("tableau_to_generators", <<>>, return_array, NoDraw)
    /\ ret' = tableau_to_generators(tab, return_array)
    /\ arg' = [tableau |-> tab, aliased |-> FALSE]
    /\ work' = tab
    /\ UNCHANGED tab

\* a call of CliffordOperations.nqubits on the side length of the tableau
DoNqubits(shape) ==
    /\ Record("nqubits", <<shape>>, FALSE, NoDraw)
    /\ ret' = [nqubits |-> nqubits_of_shape(shape)]
    /\ arg' = [tableau |-> tab, aliased |-> FALSE]
    /\ work' = tab
    /\ UNCHANGED tab

Qubits == 0..(n - 1)

\* the random bits a call with a list of k qubits can draw: at most one per
\* qubit (bits the call does not draw are taken as 0)
RandomBits(k) == [1..k -> Bit]

Next ==
    \/ \E q \in Qubits : DoH(q)
    \/ \E q \in Qubits : DoS(q)
    \/ \E c \in Qubits : \E t \in Qubits \ {c} : DoCNOT(c, t)
    \/ \E qubits \in QubitLists(n), collapse \in BOOLEAN :
          \E rnd \in RandomBits(Len(qubits)) : DoM(qubits, collapse, rnd)

Spec == Init /\ [][Next]_vars

\* the same gate applied again and again to an arbitrary binary tableau
Repeats(name, qs) == IF hist = <<>> THEN TRUE ELSE SameCall(name, qs, FALSE)

NextArb ==
    \/ \E q \in Qubits : Repeats("H", <<q>>) /\ DoH(q)
    \/ \E q \in Qubits : Repeats("S", <<q>>) /\ DoS(q)
    \/ \E c \in Qubits : \E t \in Qubits \ {c} :
          Repeats("CNOT", <<c, t>>) /\ DoCNOT(c, t)

SpecArb == InitArb /\ [][NextArb]_vars

\* calls with any integer as qubit index, in range or not, and direct calls
\* of rowsum, on the zero state and on what such calls return
Indices == (-(n + 1))..n

IndexLists == UNION {[1..k -> Indices] : k \in 1..MaxList}

NextCall ==
    \/ \E q \in Indices : steps < MaxCalls /\ DoH(q)
    \/ \E q \in Indices : steps < MaxCalls /\ DoS(q)
    \/ \E c \in Indices : \E t \in Indices \ {c} :
          steps < MaxCalls /\ DoCNOT(c, t)
    \/ \E qubits \in IndexLists, collapse \in BOOLEAN :
          \E rnd \in RandomBits(Len(qubits)) :
              steps < MaxCalls /\ DoM(qubits, collapse, rnd)
    \/ \E h \in 0..(2 * n) : \E i \in 0..(2 * n - 1) :
          steps < MaxCalls /\ DoRowsum(h, i)

SpecCall == Init /\ [][NextCall]_vars

\* the list of all qubits, in ascending order
AllQubits == [k \in 1..n |-> k - 1]

\* Pauli X gates, decomposed by the caller, and measurements of all qubits
NextPauli ==
    \/ \E q \in Qubits : DoX(q)
    \/ \E collapse \in BOOLEAN : \E rnd \in RandomBits(n) :
          DoM(AllQubits, collapse, rnd)

SpecPauli == Init /\ [][NextPauli]_vars

\* one call of rowsum on two different rows of an arbitrary binary tableau
NextSum ==
    \E h \in 0..(2 * n) : \E i \in (0..(2 * n - 1)) \ {h} :
        steps = 0 /\ DoRowsum(h, i)

SpecSum == InitArb /\ [][NextSum]_vars

\* the binary arrays of a shape
RECURSIVE Size(_)
Size(shape) == IF shape = <<>> THEN 1 ELSE Head(shape) * Size(Tail(shape))

Arrays(shape) == {[shape |-> shape, data |-> d] : d \in [1..Size(shape) -> Bit]}

\* setter calls on the zero state and on what they leave, with values of the
\* shape the accessor returns (2n x n for X and Z, 2n for r) and, for set_x,
\* also of the shape of the column it writes
NextSet ==
    \/ \E val \in Arrays(<<2 * n, n>>) \cup Arrays(<<2 * n>>) :
          steps < MaxCalls /\ DoSetX(val)
    \/ \E val \in Arrays(<<2 * n, n>>) : steps < MaxCalls /\ DoSetZ(val)
    \/ \E val \in Arrays(<<2 * n>>) : steps < MaxCalls /\ DoSetR(val)

SpecSet == Init /\ [][NextSet]_vars

\* the decoder and the qubit count on a finished array: any binary tableau of
\* 1..MaxQubits qubits, and square arrays of a side no tableau has (1 and the
\* even sides); n is the qubit count the code derives from the side
InitDec ==
    /\ \E side \in 1..(2 * MaxQubits + 1) :
          tab \in IF side % 2 = 1 /\ side > 1
                  THEN ArbTableaux((side - 1) \div 2)
                  ELSE MalformedTableaux(side)
    /\ n = nqubits_of_shape(Side(tab))
    /\ prev = tab
    /\ base = tab
    /\ work = tab
    /\ ret = [none |-> TRUE]
    /\ hist = <<>>
    /\ steps = 0
    /\ nmeas = 0
    /\ arg = [tableau |-> tab, aliased |-> FALSE]

NextDec ==
    \/ \E return_array \in BOOLEAN : steps = 0 /\ DoDecode(return_array)
    \/ steps = 0 /\ DoNqubits(Side(tab))

SpecDec == InitDec /\ [][NextDec]_vars

\* ================================================================ claims
\* rows 0..2n-1 of a tableau
GenRows(tableau, nqubits) == [i \in 0..(2 * nqubits - 1) |-> tableau[i]]

\* symplectic inner product modulo 2 of rows a and b: 0 when the Pauli
\* operators they encode commute, 1 when they anticommute
RECURSIVE SympSum(_, _, _, _)
SympSum(ra, rb, nqubits, j) ==
    IF j < 0 THEN 0
    ELSE ra[j] * rb[nqubits + j] + ra[nqubits + j] * rb[j]
         + SympSum(ra, rb, nqubits, j - 1)

Anticommute(tableau, a, b, nqubits) ==
    SympSum(tableau[a], tableau[b], nqubits, nqubits - 1) % 2 = 1

Symplectic(tableau, nqubits) ==
    /\ \A i, j \in 0..(nqubits - 1) : ~Anticommute(tableau, i, j, nqubits)
    /\ \A i, j \in nqubits..(2 * nqubits - 1) : ~Anticommute(tableau, i, j, nqubits)
    /\ \A i, j \in 0..(nqubits - 1) :
          Anticommute(tableau, i, nqubits + j, nqubits) <=> (i = j)

LastCall == Last(hist)

\* C1: after any sequence of H, S, CNOT and measurements applied to the zero
\* state, rows 0..2n-1 of the tableau (the one the caller holds and the one
\* the last operation worked on) form a symplectic basis: destabilizers
\* commute, stabilizers commute, destabilizer i anticommutes with stabilizer
\* n+j exactly when i = j.
C1_Symplectic == Symplectic(tab, n) /\ Symplectic(work, n)

C1_Witness ==
    /\ n = 2 /\ steps = MaxOps /\ nmeas >= 1
    /\ LastCall.op = "M" /\ LastCall.bits # <<>>
    /\ GenRows(work, n) # GenRows(prev, n)
    /\ \E i \in 0..3 : tab[i][0] + tab[i][1] + tab[i][2] + tab[i][3] >= 2
    /\ Symplectic(tab, n) /\ Symplectic(work, n)

\* C2: H applied twice to the same qubit of any binary tableau returns the
\* tableau, entry by entry (X bits, Z bits, phase column, scratch row).
C2_HTwice ==
    (Len(hist) = 2 /\ LastCall.op = "H") => tab = base

C2_Witness ==
    /\ Len(hist) = 2 /\ LastCall.op = "H" /\ n = 2 /\ LastCall.q = <<1>>
    /\ tab = base
    /\ \E i \in 0..3 : prev[i][4] # base[i][4]
    /\ prev[4] # base[4]

\* C3: S applied four times to the same qubit of any binary tableau returns
\* the tableau, entry by entry.
C3_SFourTimes ==
    (Len(hist) = 4 /\ LastCall.op = "S") => tab = base

C3_Witness ==
    /\ Len(hist) = 4 /\ LastCall.op = "S" /\ n = 2 /\ LastCall.q = <<0>>
    /\ tab = base
    /\ prev # base
    /\ \E i \in 0..3 : prev[i][4] # base[i][4]

\* C4: CNOT applied twice with the same distinct control and target to any
\* binary tableau returns the tableau, entry by entry, phase column included.
C4_CNOTTwice ==
    (Len(hist) = 2 /\ LastCall.op = "CNOT") => tab = base

C4_Witness ==
    /\ Len(hist) = 2 /\ LastCall.op = "CNOT" /\ LastCall.q = <<1, 0>>
    /\ tab = base
    /\ \E i \in 0..3 : prev[i][4] # base[i][4]
    /\ \E i \in 0..3 : prev[i][0] # base[i][0]
    /\ \E i \in 0..3 : prev[i][3] # base[i][3]

\* the last call was a measurement
Measured == hist # <<>> /\ LastCall.op = "M"

\* no stabilizer row of the tableau has its X bit at q set
NoStabilizerX(tableau, q, nqubits) ==
    \A i \in nqubits..(2 * nqubits - 1) : tableau[i][q] = 0

\* the row encoding (-1)^b Z_q
ZRow(q, b, nqubits) ==
    [c \in 0..(2 * nqubits) |->
        IF c = nqubits + q THEN 1 ELSE IF c = 2 * nqubits THEN b ELSE 0]

\* the 2-qubit zero state after H(0) and CNOT(0, 1)
BellState == CNOT(H(ZeroState(2), 0, 2), 0, 1, 2)

\* the samples M can return for the qubit list on the tableau, over both
\* values of collapse and every stream of random bits
Samples(tableau, qubits, nqubits) ==
    {M(tableau, qubits, nqubits, collapse, rnd).sample :
        collapse \in BOOLEAN, rnd \in RandomBits(Len(qubits))}

\* one call on the list [0, 1]: the two bits of the sample are equal
C5_BellOneCall ==
    (Measured /\ n = 2 /\ prev = BellState /\ LastCall.q = <<0, 1>>)
        => ret.sample[1] = ret.sample[2]

\* a call on [0] with collapse=True, then a call on [1]: every sample the
\* second call can return equals the sample of the first
C5_BellTwoCalls ==
    (/\ Measured /\ n = 2 /\ prev = BellState
     /\ LastCall.q = <<0>> /\ LastCall.collapse)
        => Samples(tab, <<1>>, 2) = {ret.sample}

\* the samples a call on [0, 1] can return are exactly [0, 0] and [1, 1]
C5_BellBothSamples ==
    (n = 2 /\ tab = BellState)
        => Samples(tab, <<0, 1>>, 2) = {<<0, 0>>, <<1, 1>>}

\* C5: on the 2-qubit zero state after H(0), CNOT(0, 1), measuring qubit 0
\* and then qubit 1 (as the list [0, 1] of one call, or as a call on [0] with
\* collapse=True followed by a call on [1]) yields two equal bits whatever
\* random bit is drawn, and both [0, 0] and [1, 1] can be sampled.
C5_Bell == C5_BellOneCall /\ C5_BellTwoCalls /\ C5_BellBothSamples

C5_Witness ==
    /\ Measured /\ n = 2 /\ prev = BellState /\ LastCall.q = <<0, 1>>
    /\ ret.sample = <<1, 1>>
    /\ LastCall.kinds = <<"random", "determined">>

\* C6: on a tableau reached from the zero state by gates alone, measuring a
\* qubit twice in succession (the list [q, q] in one call, or two successive
\* calls with collapse=True on the same tableau) yields the same outcome both
\* times, and the second measurement leaves rows 0..2n-1 unchanged.
C6_Remeasure ==
    (Measured /\ nmeas = Len(hist))
        => /\ (Len(hist) = 1 /\ Len(LastCall.q) = 2
                   /\ LastCall.q[1] = LastCall.q[2])
               => /\ LastCall.out[1] = LastCall.out[2]
                  /\ GenRows(work, n) =
                         GenRows(M(prev, <<LastCall.q[1]>>, n, FALSE,
                                   LastCall.bits).state_copy, n)
           /\ (Len(hist) = 2 /\ Len(LastCall.q) = 1 /\ LastCall.collapse)
               => /\ hist[1].out = hist[2].out
                  /\ GenRows(tab, n) = GenRows(prev, n)

\* C7: when no stabilizer row has its X bit at q set, measuring q changes no
\* entry of rows 0..2n-1 of the caller's tableau for either value of collapse
\* and draws no random bit; on the zero state every outcome is 0.
C7_Deterministic ==
    Measured =>
        /\ (\A k \in 1..Len(LastCall.q) : NoStabilizerX(prev, LastCall.q[k], n))
               => /\ GenRows(tab, n) = GenRows(prev, n)
                  /\ GenRows(work, n) = GenRows(prev, n)
                  /\ LastCall.bits = <<>>
        /\ GenRows(prev, n) = GenRows(ZeroState(n), n)
               => \A k \in 1..Len(ret.sample) : ret.sample[k] = 0

C7_Witness ==
    /\ Measured /\ n = 2 /\ LastCall.collapse
    /\ \A k \in 1..Len(LastCall.q) : NoStabilizerX(prev, LastCall.q[k], n)
    /\ GenRows(prev, n) # GenRows(ZeroState(n), n)
    /\ ret.sample = <<1, 0>>
    /\ GenRows(tab, n) = GenRows(prev, n)
    /\ LastCall.bits = <<>>

\* the 1-qubit zero state after H(0)
PlusState == H(ZeroState(1), 0, 1)

\* C8: on the 1-qubit zero state after H(0), measuring qubit 0 can yield 0
\* and can yield 1; afterwards the stabilizer row is X=0, Z=1 with phase bit
\* equal to the sampled outcome and the destabilizer row is the stabilizer
\* row from before the measurement (X=1, Z=0, phase 0).
C8_MeasurePlus ==
    /\ (n = 1 /\ tab = PlusState)
           => Samples(tab, <<0>>, 1) = {<<0>>, <<1>>}
    /\ (Measured /\ n = 1 /\ GenRows(prev, 1) = GenRows(PlusState, 1))
           => /\ work[1] = ZRow(0, ret.sample[1], 1)
              /\ work[0] = prev[1]
              /\ work[0] = (0 :> 1 @@ 1 :> 0 @@ 2 :> 0)
              /\ LastCall.collapse => GenRows(tab, 1) = GenRows(work, 1)

C8_Witness ==
    /\ Measured /\ n = 1 /\ GenRows(prev, 1) = GenRows(PlusState, 1)
    /\ LastCall.q = <<0>> /\ LastCall.collapse
    /\ ret.sample = <<1>>
    /\ tab[1] = ZRow(0, 1, 1)

C10_CallerCollapsed ==
    (Measured /\ LastCall.collapse) =>
        \A k \in 1..Len(LastCall.q) :
            LastCall.kinds[k] = "random" =>
                \E i \in n..(2 * n - 1) :
                    tab[i] = ZRow(LastCall.q[k], LastCall.out[k], n)

\* the last call was one of H, S, CNOT and rowsum and returned a tableau
GateReturned ==
    /\ hist # <<>>
    /\ LastCall.op \in {"H", "S", "CNOT", "rowsum"}
    /\ "tableau" \in DOMAIN ret

C12_NoCollapse ==
    (Measured /\ ~LastCall.collapse) =>
        /\ tab = prev
        /\ arg.tableau = prev
        /\ Len(LastCall.q) = 2 =>
              \E first \in {M(prev, <<LastCall.q[1]>>, n, FALSE, LastCall.bits)} :
                  /\ first.sample = <<LastCall.out[1]>>
                  /\ M(first.state_copy, <<LastCall.q[2]>>, n, FALSE, first.rnd).sample
                         = <<LastCall.out[2]>>
        /\ \A j, k \in 1..Len(LastCall.q) :
              (j < k /\ LastCall.q[j] = LastCall.q[k])
                  => /\ LastCall.kinds[k] = "determined"
                     /\ LastCall.out[k] = LastCall.out[j]

C12_Witness ==
    /\ Measured /\ ~LastCall.collapse /\ n = 2
    /\ LastCall.q = <<1, 1>>
    /\ LastCall.kinds = <<"random", "determined">>
    /\ ret.sample = <<1, 1>>
    /\ tab = prev /\ GenRows(work, n) # GenRows(prev, n)

\* the last call was H, S, CNOT or M with a qubit index outside 0..n-1
OutOfRangeCall ==
    /\ hist # <<>>
    /\ LastCall.op \in {"H", "S", "CNOT", "M"}
    /\ \E k \in DOMAIN LastCall.q : LastCall.q[k] \notin 0..(n - 1)

\* C13: every call of H, S, CNOT or M with a qubit index outside [0, n),
\* negative or at least n, ends with an error raised by that call: it returns
\* no tableau and no sample, and no index is taken for another column.
C13_OutOfRangeFails ==
    OutOfRangeCall => DOMAIN ret = {"error"}

\* the last call was the decoder
Decoded == hist # <<>> /\ LastCall.op = "tableau_to_generators"

\* the side of the tableau is 2n+1 for a positive n
WellFormed(tableau) == \E k \in 1..Side(tableau) : Side(tableau) = 2 * k + 1

\* C14: deriving the qubit count from a tableau whose side is not 2n+1 for a
\* positive n (an even side, or side 1) ends with an error, in
\* CliffordOperations.nqubits and in tableau_to_generators alike; no truncated
\* qubit count is used.
C14_MalformedFails ==
    (/\ hist # <<>>
     /\ LastCall.op \in {"nqubits", "tableau_to_generators"}
     /\ ~WellFormed(tab))
        => DOMAIN ret = {"error"}

\* the list the decoder returns for a Pauli string with return_array=False:
\* the operator at position j is on qubit j - 1 (qubits count from 0)
PauliList(names) == [j \in 1..Len(names) |-> [gate |-> names[j], qubit |-> j - 1]]

\* np.kron(a, b) of two matrices: entry (i*rb + k, j*cb + l) is a[i, j] * b[k, l]
kron(a, b) ==
    LET ca == a.shape[2]
        rb == b.shape[1]
        cb == b.shape[2]
    IN  [shape |-> <<a.shape[1] * rb, ca * cb>>,
         data |-> [e \in 1..(Len(a.data) * Len(b.data)) |->
                      LET r == (e - 1) \div (ca * cb)
                          c == (e - 1) % (ca * cb)
                      IN  cmul(a.data[(r \div rb) * ca + (c \div cb) + 1],
                               b.data[(r % rb) * cb + (c % cb) + 1])]]

\* reduce(np.kron, ...) over the matrices of a Pauli string, left to right
RECURSIVE kron_each(_, _)
kron_each(m, names) ==
    IF names = <<>> THEN m
    ELSE kron_each(kron(m, matrix(Head(names))), Tail(names))

KronOf(names) == kron_each(matrix(Head(names)), Tail(names))

\* a Pauli string as the decoder is to return it
Expected(names, return_array) ==
    IF return_array THEN KronOf(names) ELSE PauliList(names)

\* C15: for the tableau H(0) makes of the 1-qubit zero state the decoder
\* returns the stabilizer generator X with phase +1 and the destabilizer
\* generator Z.
C15_PlusDecoded ==
    (Decoded /\ tab = PlusState) =>
        /\ \E k \in DOMAIN ret.generators :
              /\ ret.generators[k] = Expected(<<"X">>, LastCall.collapse)
              /\ ret.phases[k] = Complex(1, 0)
        /\ \E k \in DOMAIN ret.generators :
              ret.generators[k] = Expected(<<"Z">>, LastCall.collapse)

\* the names of the single-qubit Paulis of the k-th generator the decoder
\* returns for the tableau
PaulisOf(tableau, k) ==
    LET paulis == tableau_to_generators(tableau, FALSE).generators[k]
    IN  [j \in 1..Len(paulis) |-> paulis[j].gate]

\* C16: with return_array=True every generator the decoder returns is the
\* 2^n x 2^n Kronecker product of its single-qubit Pauli matrices, taken left
\* to right in qubit order.
C16_Kronecker ==
    (Decoded /\ LastCall.collapse /\ WellFormed(tab)) =>
        \A k \in DOMAIN ret.generators :
            /\ ret.generators[k].shape = <<Pow2(n), Pow2(n)>>
            /\ ret.generators[k] = KronOf(PaulisOf(tab, k))

\* C17: the phase the decoder reports for a generator is a sign: +1 when the
\* phase bit of its row is 0 and -1 when it is 1.
C17_SignPhases ==
    (Decoded /\ WellFormed(tab)) =>
        \A k \in DOMAIN ret.phases :
            ret.phases[k] = IF tab[n + k - 1][2 * n] = 0
                            THEN Complex(1, 0) ELSE Complex(-1, 0)

PauliTable ==
    (<<0, 0>> :> "I") @@ (<<0, 1>> :> "X") @@ (<<1, 0>> :> "Z") @@ (<<1, 1>> :> "Y")

\* C19 (as stated): the Pauli at position j of a generator is the one the
\* mapping gives for the pair (x, z) of the row at qubit j, x bit first, and
\* it acts on qubit j.
C19_XZOrder ==
    (Decoded /\ ~LastCall.collapse /\ WellFormed(tab)) =>
        \A k \in DOMAIN ret.generators : \A j \in 1..n :
            /\ ret.generators[k][j].gate =
                   PauliTable[<<tab[n + k - 1][j - 1], tab[n + k - 1][n + j - 1]>>]
            /\ ret.generators[k][j].qubit = j - 1

\* C19 (amended): the pair is written z bit first: the Pauli at position j
\* is the one the mapping gives for (z, x), so x=1, z=0 is X and x=0, z=1 is
\* Z; the operator at position j acts on qubit j.
C19_ZXOrder ==
    (Decoded /\ ~LastCall.collapse /\ WellFormed(tab)) =>
        \A k \in DOMAIN ret.generators :
            /\ Len(ret.generators[k]) = n
            /\ \A j \in 1..n :
                  /\ ret.generators[k][j].gate =
                         PauliTable[<<tab[n + k - 1][n + j - 1], tab[n + k - 1][j - 1]>>]
                  /\ ret.generators[k][j].qubit = j - 1

C19_Witness ==
    /\ Decoded /\ ~LastCall.collapse /\ n = 2
    /\ tab[2] = (0 :> 1 @@ 1 :> 0 @@ 2 :> 0 @@ 3 :> 1 @@ 4 :> 0)
    /\ tab[3] = (0 :> 1 @@ 1 :> 0 @@ 2 :> 1 @@ 3 :> 0 @@ 4 :> 1)
    /\ ret.generators = <<PauliList(<<"X", "Z">>), PauliList(<<"Y", "I">>)>>

\* C20: the generator list of an n-qubit tableau has 2n entries and as many
\* phases: entries 0..n-1 decode the destabilizer rows, entries n..2n-1 the
\* stabilizer rows, each in row order.
C20_AllRows ==
    (Decoded /\ WellFormed(tab)) =>
        /\ Len(ret.generators) = 2 * n
        /\ Len(ret.phases) = 2 * n
        /\ \A k \in 1..(2 * n) :
              ret.generators[k] = generator(tab, k - 1, n, LastCall.collapse)

\* the outcomes of the listed qubits measured one call after another, each
\* call on a list of one qubit and on the working array the call before left
RECURSIVE OneByOne(_, _, _, _)
OneByOne(tableau, qubits, nqubits, rnd) ==
    IF qubits = <<>> THEN <<>>
    ELSE LET w == M(tableau, <<Head(qubits)>>, nqubits, FALSE, rnd)
         IN  <<w.sample[1]>> \o OneByOne(w.state_copy, Tail(qubits), nqubits, w.rnd)

\* C21: the sample M returns has one bit per listed qubit, repetitions
\* included, and the bit at position k is the outcome of the k-th listed
\* qubit, the qubits being measured in list order.
C21_SampleInOrder ==
    Measured =>
        /\ Len(ret.sample) = Len(LastCall.q)
        /\ \A k \in 1..Len(ret.sample) : ret.sample[k] \in Bit
        /\ ret.sample = OneByOne(prev, LastCall.q, n, LastCall.bits)

C21_Witness ==
    /\ Measured /\ n = 2 /\ LastCall.q = <<1, 0>>
    /\ LastCall.kinds = <<"random", "determined">>
    /\ ret.sample = <<0, 1>>

\* the working array of M on the tableau before the k-th listed qubit is
\* measured (k = Len(qubits) + 1: when the call returns)
Before(tableau, qubits, nqubits, rnd, k) ==
    M(tableau, SubSeq(qubits, 1, k - 1), nqubits, FALSE, rnd).state_copy

\* the rows of the tableau new against those of old, for a measurement of q in
\* the random case with the given outcome
RandomCase(old, new, q, nqubits, outcome) ==
    LET p == Min({i \in nqubits..(2 * nqubits - 1) : old[i][q] = 1})
    IN  /\ new[p - nqubits] = old[p]
        /\ new[p] = ZRow(q, outcome, nqubits)
        /\ \A i \in (0..(2 * nqubits - 1)) \ {p, p - nqubits} :
              old[i][q] = 1 =>
                  /\ new[i] = rowsum(old, i, p, nqubits, FALSE)[i]
                  /\ new[i][q] = 0
        /\ \A i \in (0..(2 * nqubits)) \ {p, p - nqubits} :
              old[i][q] = 0 => new[i] = old[i]

\* C22: in the random case of M on qubit q, with p the smallest stabilizer
\* row whose X bit at q is set: afterwards row p-n of the working tableau is
\* the old row p with its phase bit; row p has X all zero, Z set only at q and
\* the outcome as phase bit; every other generator row whose X bit at q was set
\* is rowsum(h=i, i=p) of its old value and has X bit 0 at q; every row other
\* than p and p-n whose X bit at q was 0 is unchanged.
C22_RandomCase ==
    Measured =>
        /\ work = Before(prev, LastCall.q, n, LastCall.bits, Len(LastCall.q) + 1)
        /\ \A k \in 1..Len(LastCall.q) :
              LastCall.kinds[k] = "random" =>
                  RandomCase(Before(prev, LastCall.q, n, LastCall.bits, k),
                             Before(prev, LastCall.q, n, LastCall.bits, k + 1),
                             LastCall.q[k], n, LastCall.out[k])

C22_Witness ==
    /\ Measured /\ n = 2 /\ LastCall.q = <<0>> /\ LastCall.kinds = <<"random">>
    /\ ret.sample = <<1>>
    /\ prev[2][0] = 1 /\ prev[3][0] = 1 /\ prev[1][0] = 1 /\ prev[0][0] = 1
    /\ work[0] = prev[2] /\ work[2] = ZRow(0, 1, 2)
    /\ work[3] # prev[3] /\ work[1] # prev[1]

\* the single-qubit Pauli operator a pair of bits encodes: x=1, z=1 is Y
PauliName(x, z) ==
    IF x = 0 THEN (IF z = 0 THEN "I" ELSE "Z") ELSE (IF z = 0 THEN "X" ELSE "Y")

\* the product a.b of two single-qubit Pauli operators, as the operator p and
\* the exponent e of the factor i^e: XY = iZ, YZ = iX, ZX = iY, and the
\* products in the other order have the factor -i = i^3
PauliTimes(a, b) ==
    CASE a = "I" -> [p |-> b, e |-> 0]
      [] b = "I" -> [p |-> a, e |-> 0]
      [] a = b -> [p |-> "I", e |-> 0]
      [] a = "X" /\ b = "Y" -> [p |-> "Z", e |-> 1]
      [] a = "Y" /\ b = "Z" -> [p |-> "X", e |-> 1]
      [] a = "Z" /\ b = "X" -> [p |-> "Y", e |-> 1]
      [] a = "Y" /\ b = "X" -> [p |-> "Z", e |-> 3]
      [] a = "Z" /\ b = "Y" -> [p |-> "X", e |-> 3]
      [] a = "X" /\ b = "Z" -> [p |-> "Y", e |-> 3]

\* the signed Pauli operator a row encodes: i^e times the tensor product of
\* the single-qubit operators paulis[1..n], with e = 2r for the phase bit r
OpOfRow(row, nqubits) ==
    [paulis |-> [j \in 1..nqubits |-> PauliName(row[j - 1], row[nqubits + j - 1])],
     e |-> 2 * row[2 * nqubits]]

RECURSIVE SumSeq(_)
SumSeq(seq) == IF seq = <<>> THEN 0 ELSE Head(seq) + SumSeq(Tail(seq))

\* the product A.B of two signed Pauli operators
OpTimes(A, B) ==
    LET each == [j \in 1..Len(A.paulis) |-> PauliTimes(A.paulis[j], B.paulis[j])]
    IN  [paulis |-> [j \in 1..Len(each) |-> each[j].p],
         e |-> (A.e + B.e + SumSeq([j \in 1..Len(each) |-> each[j].e])) % 4]

Identity(nqubits) == [paulis |-> [j \in 1..nqubits |-> "I"], e |-> 0]

\* the product of the rows of the set, by ascending row index
RECURSIVE ProductOf(_, _, _)
ProductOf(tableau, rows, nqubits) ==
    IF rows = {} THEN Identity(nqubits)
    ELSE OpTimes(OpOfRow(tableau[Min(rows)], nqubits),
                 ProductOf(tableau, rows \ {Min(rows)}, nqubits))

\* the products of stabilizer generators (rows n..2n-1 with their signs)
StabilizerGroup(tableau, nqubits) ==
    {ProductOf(tableau, rows, nqubits) : rows \in SUBSET (nqubits..(2 * nqubits - 1))}

\* the operator (-1)^b Z_q
SignedZ(q, b, nqubits) ==
    [paulis |-> [j \in 1..nqubits |-> IF j = q + 1 THEN "Z" ELSE "I"], e |-> 2 * b]

\* C23: on every tableau reachable from the zero state by gates and
\* measurements, when measuring q is deterministic the outcome b M returns is
\* the one bit for which (-1)^b Z_q is a product of stabilizer generators.
C23_DeterminedSign ==
    Measured =>
        \A k \in 1..Len(LastCall.q) :
            LastCall.kinds[k] = "determined" =>
                {b \in Bit :
                    SignedZ(LastCall.q[k], b, n) \in
                        StabilizerGroup(Before(prev, LastCall.q, n, LastCall.bits, k), n)}
                    = {ret.sample[k]}

C23_Witness ==
    /\ Measured /\ n = 2 /\ LastCall.q = <<1>> /\ LastCall.kinds = <<"determined">>
    /\ ret.sample = <<1>>
    /\ \A i \in 2..3 : \A b \in Bit : prev[i] # ZRow(1, b, 2)

\* the rowsum calls the last call, a measurement, made
LastSums ==
    M_calls(M(prev, <<>>, n, LastCall.collapse, LastCall.bits), LastCall.q, n)

\* C24: on every tableau reachable from the zero state by gates and
\* measurements, the value 2*r_h + 2*r_i + sum_j g_j of every rowsum call M
\* makes is 0 or 2 modulo 4, except possibly in the call of the random case
\* whose target row is p-n, the destabilizer paired with the pivot p; the
\* residue is never 1 or 3 in the deterministic case.
C24_EvenResidue ==
    Measured =>
        \A c \in DOMAIN LastSums :
            \/ LastSums[c].acc % 4 \in {0, 2}
            \/ LastSums[c].kind = "random" /\ LastSums[c].h = LastSums[c].i - n

C24_Witness ==
    /\ Measured /\ n = 2
    /\ \E c \in DOMAIN LastSums :
          LastSums[c].kind = "random" /\ LastSums[c].h # LastSums[c].i - n
              /\ LastSums[c].acc % 4 = 2
    /\ \E c \in DOMAIN LastSums :
          LastSums[c].kind = "random" /\ LastSums[c].h = LastSums[c].i - n
              /\ LastSums[c].acc % 4 \in {1, 3}
    /\ \E c \in DOMAIN LastSums :
          LastSums[c].kind = "determined" /\ LastSums[c].acc % 4 = 2

\* the last call was rowsum on rows h and i
Summed == hist # <<>> /\ LastCall.op = "rowsum"

\* C25: for rows h # i of a tableau whose Pauli operators commute, row h of
\* the tableau rowsum returns encodes the signed product of the two operators:
\* X and Z bits are the componentwise XOR and the phase bit is the sign of the
\* product of the single-qubit Paulis; every g is the exponent of i in the
\* product of the two single-qubit Paulis and one of -1, 0, 1; every row
\* other than h is unchanged.
C25_SignedProduct ==
    (Summed /\ ~Anticommute(prev, LastCall.q[1], LastCall.q[2], n)) =>
        \E h \in {LastCall.q[1]} : \E i \in {LastCall.q[2]} :
            /\ \A c \in 0..(2 * n - 1) : tab[h][c] = XOR(prev[h][c], prev[i][c])
            /\ OpOfRow(tab[h], n) = OpTimes(OpOfRow(prev[h], n), OpOfRow(prev[i], n))
            /\ \A j \in 0..(n - 1) :
                  \E g \in {exponent(prev[i][j], prev[i][n + j],
                                      prev[h][j], prev[h][n + j])} :
                      /\ g \in {-1, 0, 1}
                      /\ g % 4 = PauliTimes(PauliName(prev[i][j], prev[i][n + j]),
                                            PauliName(prev[h][j], prev[h][n + j])).e
            /\ \A k \in (0..(2 * n)) \ {h} : tab[k] = prev[k]

C25_Witness ==
    /\ Summed /\ n = 2 /\ LastCall.q = <<1, 3>>
    /\ ~Anticommute(prev, 1, 3, n)
    /\ prev[1] = (0 :> 1 @@ 1 :> 1 @@ 2 :> 0 @@ 3 :> 0 @@ 4 :> 0)
    /\ prev[3] = (0 :> 0 @@ 1 :> 0 @@ 2 :> 1 @@ 3 :> 1 @@ 4 :> 0)
    /\ tab[1] = (0 :> 1 @@ 1 :> 1 @@ 2 :> 1 @@ 3 :> 1 @@ 4 :> 1)

\* C26: for distinct control c and target t, CNOT sets in every generator row
\* r to r XOR x_c*z_t*(x_t XOR z_c XOR 1), x_t to x_t XOR x_c and z_c to
\* z_c XOR z_t, all three from the values of the row before the call; the
\* other columns of the generator rows and the scratch row are unchanged.
C26_CNOTUpdate ==
    (hist # <<>> /\ LastCall.op = "CNOT") =>
        \E c \in {LastCall.q[1]} : \E t \in {LastCall.q[2]} :
            /\ \A i \in 0..(2 * n - 1) :
                  /\ tab[i][2 * n] =
                         XOR(prev[i][2 * n],
                             prev[i][c] * prev[i][n + t]
                                 * XOR(XOR(prev[i][t], prev[i][n + c]), 1))
                  /\ tab[i][t] = XOR(prev[i][t], prev[i][c])
                  /\ tab[i][n + c] = XOR(prev[i][n + c], prev[i][n + t])
                  /\ \A k \in (0..(2 * n - 1)) \ {t, n + c} : tab[i][k] = prev[i][k]
            /\ tab[2 * n] = prev[2 * n]

C26_Witness ==
    /\ Len(hist) = 1 /\ LastCall.op = "CNOT" /\ LastCall.q = <<0, 1>>
    /\ prev[0] = (0 :> 1 @@ 1 :> 0 @@ 2 :> 0 @@ 3 :> 1 @@ 4 :> 0)
    /\ tab[0] = (0 :> 1 @@ 1 :> 1 @@ 2 :> 1 @@ 3 :> 1 @@ 4 :> 1)
    /\ prev[4] = (0 :> 1 @@ 1 :> 0 @@ 2 :> 0 @@ 3 :> 1 @@ 4 :> 0)
    /\ tab[4] = prev[4]

\* the positions of the qubit list measured in the random case
RandomPasses == {k \in DOMAIN LastCall.kinds : LastCall.kinds[k] = "random"}

\* the frames in which M can return for the arguments of the last call and a
\* stream of random bits from which it draws the bits the last call drew
SameDraws ==
    {w \in {M(prev, LastCall.q, n, LastCall.collapse, rnd) :
                rnd \in RandomBits(Len(LastCall.q))} :
        ~w.starved /\ w.drawn = LastCall.bits}

FlippedState(q, nqubits) ==
    H(S(S(H(ZeroState(nqubits), q, nqubits), q, nqubits), q, nqubits), q, nqubits)

\* C28: on the n-qubit zero state after H(q), S(q), S(q), H(q), measuring all
\* qubits yields 1 for q and 0 for every other qubit, every pass in the
\* deterministic case and without a random draw; the stabilizer row n+q is
\* then Z_q with phase bit 1.
C28_PauliX ==
    \A q \in Qubits :
        (Measured /\ prev = FlippedState(q, n) /\ LastCall.q = AllQubits) =>
            /\ ret.sample = [k \in 1..n |-> IF k = q + 1 THEN 1 ELSE 0]
            /\ LastCall.kinds = [k \in 1..n |-> "determined"]
            /\ LastCall.bits = <<>>
            /\ tab[n + q] = ZRow(q, 1, n)
            /\ work[n + q] = ZRow(q, 1, n)

C28_Witness ==
    /\ Measured /\ n = 2 /\ steps = 2 /\ prev = FlippedState(1, 2)
    /\ LastCall.q = <<0, 1>> /\ LastCall.collapse
    /\ ret.sample = <<0, 1>>
    /\ tab[3] = (0 :> 0 @@ 1 :> 0 @@ 2 :> 0 @@ 3 :> 1 @@ 4 :> 1)

\* the last call was H, S, CNOT or M, had a qubit index >= n and raised
RaisedOnLargeIndex ==
    /\ hist # <<>>
    /\ LastCall.op \in {"H", "S", "CNOT", "M"}
    /\ DOMAIN ret = {"error"}
    /\ \E k \in DOMAIN LastCall.q : LastCall.q[k] >= n

\* C29: when H, S, CNOT or M raises an error for a qubit index >= n, every
\* entry of the tableau the caller passed in has the value it had before the
\* call; an M call with collapse=True whose list has valid indices and then
\* an invalid one leaves no partial measurement update in it.
C29_ErrorLeavesTableau ==
    RaisedOnLargeIndex => (tab = prev /\ arg.tableau = prev)

\* an array of shape (rows, cols) as the rows x cols block an accessor returns
AsBlock(val) ==
    [i \in 0..(val.shape[1] - 1) |->
        [j \in 0..(val.shape[2] - 1) |-> val.data[i * val.shape[2] + j + 1]]]

\* an array of shape (rows,) as the column an accessor returns
AsColumn(val) == [i \in 0..(val.shape[1] - 1) |-> val.data[i + 1]]

\* the last call was the setter, with a value of the shape of its accessor
SetterCalled(name, shape) ==
    hist # <<>> /\ LastCall.op = name /\ LastCall.q.shape = shape

\* C30: each setter is the inverse of its accessor on the generator rows:
\* after set_x(T, n, v) get_x(T, n) returns v, after set_z(T, n, v) get_z(T, n)
\* returns v, after set_r(T, v) get_r(T, n) returns v; each setter leaves the
\* other two components and the scratch row unchanged; with
\* include_scratch=True the accessors return 2n+1 rows instead of 2n.
C30_SettersInvert ==
    /\ SetterCalled("set_x", <<2 * n, n>>) =>
           /\ "error" \notin DOMAIN ret
           /\ get_x(tab, n, FALSE) = AsBlock(LastCall.q)
           /\ get_z(tab, n, FALSE) = get_z(prev, n, FALSE)
           /\ get_r(tab, n, FALSE) = get_r(prev, n, FALSE)
           /\ get_scratch(tab) = get_scratch(prev)
    /\ SetterCalled("set_z", <<2 * n, n>>) =>
           /\ "error" \notin DOMAIN ret
           /\ get_z(tab, n, FALSE) = AsBlock(LastCall.q)
           /\ get_x(tab, n, FALSE) = get_x(prev, n, FALSE)
           /\ get_r(tab, n, FALSE) = get_r(prev, n, FALSE)
           /\ get_scratch(tab) = get_scratch(prev)
    /\ SetterCalled("set_r", <<2 * n>>) =>
           /\ "error" \notin DOMAIN ret
           /\ get_r(tab, n, FALSE) = AsColumn(LastCall.q)
           /\ get_x(tab, n, FALSE) = get_x(prev, n, FALSE)
           /\ get_z(tab, n, FALSE) = get_z(prev, n, FALSE)
           /\ get_scratch(tab) = get_scratch(prev)
    /\ \A include_scratch \in BOOLEAN :
           \E rows \in {0..(IF include_scratch THEN 2 * n ELSE 2 * n - 1)} :
               /\ DOMAIN get_x(tab, n, include_scratch) = rows
               /\ DOMAIN get_z(tab, n, include_scratch) = rows
               /\ DOMAIN get_r(tab, n, include_scratch) = rows

=============================================================================
